---- MODULE Spec2Model ----
(***************************************************************************)
(* cosmwasm-std coin.rs: the Coin value type, its text codec               *)
(* (impl FromStr for Coin / impl fmt::Display for Coin) and has_coins.     *)
(*                                                                         *)
(* Text is a sequence of Unicode scalar values (Rust `char`s), so that     *)
(* '0'..'9' are the code points 48..57 and parsing and formatting are real *)
(* conversions between code points and numbers.                            *)
(*                                                                         *)
(* A u128 is kept at its exact width as NumLimbs limbs of LimbBits bits,   *)
(* least significant limb first, so that 2^128 - 1 and the overflow at     *)
(* 2^128 are represented exactly.                                          *)
(***************************************************************************)
EXTENDS Integers, Sequences, FiniteSets, TLC

VARIABLES
    s,          \* the raw text handed to Coin::from_str, or None
    res,        \* the Result of Coin::from_str(s), or Pending
    first,      \* the Result of the first decode of this text, before zeros were prepended
    zeros,      \* how many '0' characters were prepended to the text since then
    coin,       \* the Coin the caller holds (constructed or decoded), or None
    text,       \* coin.to_string(), or None
    embedded,   \* format!("Amount: {}", coin), or None
    back,       \* the Result of Coin::from_str(text), or Pending
    wallet,     \* the &[Coin] handed to has_coins
    required,   \* the &Coin handed to has_coins, or None
    found       \* what has_coins(wallet, required) returned, or None

vars == <<s, res, first, zeros, coin, text, embedded, back, wallet, required, found>>

---------------------------------------------------------------------------
(* Option and Result values *)

None == [tag |-> "None"]
Some(x) == [tag |-> "Some", val |-> x]
Pending == [tag |-> "Pending"]
Ok(c) == [tag |-> "Ok", coin |-> c]
Err(e) == [tag |-> "Err", err |-> e]

(* CoinFromStrError and the std ParseIntError kinds it can carry *)
MissingDenom == [kind |-> "MissingDenom"]
MissingAmount == [kind |-> "MissingAmount"]
InvalidAmount(src) == [kind |-> "InvalidAmount", source |-> src]

---------------------------------------------------------------------------
(* u128 at its exact width *)

U128Bits == 128
LimbBits == 16
LimbBase == 2 ^ LimbBits
NumLimbs == U128Bits \div LimbBits

U128_ZERO == [i \in 1..NumLimbs |-> 0]
U128_MAX == [i \in 1..NumLimbs |-> LimbBase - 1]

(* a small number as a u128 *)
u128_from(n) ==
    [i \in 1..NumLimbs |->
        IF i = 1 THEN n % LimbBase
        ELSE IF i = 2 THEN n \div LimbBase
        ELSE 0]

(* x * m + a over the limbs from i upward with incoming carry c:           *)
(* the wrapped limbs and the carry out of the top limb                     *)
RECURSIVE mul_add_limbs(_, _, _, _)
mul_add_limbs(x, m, c, i) ==
    IF i > Len(x) THEN [limbs |-> <<>>, carry |-> c]
    ELSE LET t == x[i] * m + c
             rest == mul_add_limbs(x, m, t \div LimbBase, i + 1)
         IN  [limbs |-> <<t % LimbBase>> \o rest.limbs, carry |-> rest.carry]

(* u128::checked_mul by a small factor: None on overflow *)
checked_mul(x, m) ==
    LET r == mul_add_limbs(x, m, 0, 1)
    IN  IF r.carry # 0 THEN None ELSE Some(r.limbs)

(* a checked_add that wraps around instead of reporting the overflow *)
wrapping_add(x, a) == Some(mul_add_limbs(x, 1, a, 1).limbs)

(* u128::checked_add of a small addend: None on overflow *)
checked_add(x, a) ==
    LET r == mul_add_limbs(x, 1, a, 1)
    IN  IF r.carry # 0 THEN None ELSE Some(r.limbs)

(* x / d and x % d for a small divisor, from the top limb down *)
RECURSIVE div_rem_limbs(_, _, _, _)
div_rem_limbs(x, d, i, r) ==
    IF i = 0 THEN [limbs |-> <<>>, rem |-> r]
    ELSE LET cur == r * LimbBase + x[i]
             rest == div_rem_limbs(x, d, i - 1, cur % d)
         IN  [limbs |-> rest.limbs \o <<cur \div d>>, rem |-> rest.rem]

div_rem(x, d) == div_rem_limbs(x, d, Len(x), 0)

(* the order of u128, decided at the most significant limb that differs *)
RECURSIVE cmp_limbs(_, _, _)
cmp_limbs(x, y, i) ==
    IF i = 0 THEN 0
    ELSE IF x[i] < y[i] THEN -1
    ELSE IF x[i] > y[i] THEN 1
    ELSE cmp_limbs(x, y, i - 1)

Uint128_ge(x, y) == cmp_limbs(x, y, NumLimbs) >= 0

---------------------------------------------------------------------------
(* characters *)

is_ascii_digit(c) == c \in 48..57

(* char::to_digit(10) *)
to_digit(c) == IF is_ascii_digit(c) THEN Some(c - 48) ELSE None

---------------------------------------------------------------------------
(* str::parse::<u128>(): core::num from_str_radix with radix 10 *)

IntOk(v) == [tag |-> "Ok", val |-> v]
IntErr(k) == [tag |-> "Err", kind |-> k]

RECURSIVE parse_digits(_, _, _)
parse_digits(src, i, acc) ==
    IF i > Len(src) THEN IntOk(acc)
    ELSE LET d == to_digit(src[i])
         IN  IF d = None THEN IntErr("InvalidDigit")
             ELSE LET m == checked_mul(acc, 10)
                  IN  IF m = None THEN IntErr("PosOverflow")
                      ELSE LET a == checked_add(m.val, d.val)
                           IN  IF a = None THEN IntErr("PosOverflow")
                               ELSE parse_digits(src, i + 1, a.val)

(* a parse that takes every run longer than the 39 digits of u128::MAX    *)
(* for an overflow                                                         *)
parse_u128_by_length(src) ==
    IF src = <<>> THEN IntErr("Empty")
    ELSE IF Len(src) > 39 THEN IntErr("PosOverflow")
    ELSE parse_digits(src, 1, U128_ZERO)

parse_u128(src) ==
    IF src = <<>> THEN IntErr("Empty")
    ELSE IF src = <<43>> \/ src = <<45>> THEN IntErr("InvalidDigit")
    ELSE IF src[1] = 43 THEN parse_digits(src, 2, U128_ZERO)
    ELSE parse_digits(src, 1, U128_ZERO)

---------------------------------------------------------------------------
(* Coin *)

(* Uint128::new / From<u128> for Uint128: the newtype wraps the u128 *)
Uint128_new(n) == n

Coin_new(amount, denom) == [denom |-> denom, amount |-> Uint128_new(amount)]

(* s.find(|c: char| !c.is_ascii_digit()): the offset of the first character *)
(* that is not an ASCII digit. Every character before it is an ASCII digit, *)
(* one byte each, so the byte offset is the number of characters before it. *)
RECURSIVE find_from(_, _)
find_from(str, i) ==
    IF i > Len(str) THEN None
    ELSE IF ~is_ascii_digit(str[i]) THEN Some(i - 1)
    ELSE find_from(str, i + 1)

find_non_digit(str) == find_from(str, 1)

(* a split that drops the character at the split point *)
split_at_skipping(str, pos) == <<SubSeq(str, 1, pos), SubSeq(str, pos + 2, Len(str))>>

(* str::split_at(pos) *)
split_at(str, pos) == <<SubSeq(str, 1, pos), SubSeq(str, pos + 1, Len(str))>>

(* str::trim for the ASCII space *)
RECURSIVE trim(_)
trim(str) ==
    IF str = <<>> THEN str
    ELSE IF Head(str) = 32 THEN trim(Tail(str))
    ELSE IF str[Len(str)] = 32 THEN trim(SubSeq(str, 1, Len(str) - 1))
    ELSE str

(* a from_str that trims the denom *)
from_str_trimming(str) ==
    LET p == find_from(str, 1)
    IN  IF p = None THEN Err(MissingDenom)
        ELSE LET amount == SubSeq(str, 1, p.val)
                 denom == SubSeq(str, p.val + 1, Len(str))
             IN  IF amount = <<>> THEN Err(MissingAmount)
                 ELSE LET n == parse_u128(amount)
                      IN  IF n.tag = "Err" THEN Err(InvalidAmount(n.kind))
                          ELSE Ok([amount |-> Uint128_new(n.val), denom |-> trim(denom)])

(* a from_str that parses the digit run before it looks for the denom *)
from_str_parsing_first(str) ==
    LET p == find_from(str, 1)
        pos == IF p = None THEN Len(str) ELSE p.val
        amount == SubSeq(str, 1, pos)
        denom == SubSeq(str, pos + 1, Len(str))
    IN  IF amount = <<>> THEN
            (IF p = None THEN Err(MissingDenom) ELSE Err(MissingAmount))
        ELSE LET n == parse_u128(amount)
             IN  IF n.tag = "Err" THEN Err(InvalidAmount(n.kind))
                 ELSE IF p = None THEN Err(MissingDenom)
                 ELSE Ok([amount |-> Uint128_new(n.val), denom |-> denom])

(* a from_str without the amount.is_empty() check *)
from_str_unchecked_amount(str) ==
    LET p == find_from(str, 1)
    IN  IF p = None THEN Err(MissingDenom)
        ELSE LET amount == SubSeq(str, 1, p.val)
                 denom == SubSeq(str, p.val + 1, Len(str))
                 n == parse_u128(amount)
             IN  IF n.tag = "Err" THEN Err(InvalidAmount(n.kind))
                 ELSE Ok([amount |-> Uint128_new(n.val), denom |-> denom])

(* a from_str that splits at the end of the text when find gives None *)
from_str_unchecked_denom(str) ==
    LET p == find_from(str, 1)
        pos == IF p = None THEN Len(str) ELSE p.val
        amount == SubSeq(str, 1, pos)
        denom == SubSeq(str, pos + 1, Len(str))
    IN  IF amount = <<>> THEN Err(MissingAmount)
        ELSE LET n == parse_u128(amount)
             IN  IF n.tag = "Err" THEN Err(InvalidAmount(n.kind))
                 ELSE Ok([amount |-> Uint128_new(n.val), denom |-> denom])

(* impl FromStr for Coin *)
from_str(str) ==
    LET p == find_non_digit(str)
    IN  IF p = None THEN Err(MissingDenom)
        ELSE LET parts == split_at(str, p.val)
                 amount == parts[1]
                 denom == parts[2]
             IN  IF amount = <<>> THEN Err(MissingAmount)
                 ELSE LET n == parse_u128(amount)
                      IN  IF n.tag = "Err" THEN Err(InvalidAmount(n.kind))
                          ELSE Ok([amount |-> Uint128_new(n.val), denom |-> denom])

(* the decimal digits of a u128, most significant first *)
RECURSIVE digits_of(_)
digits_of(n) ==
    IF n = U128_ZERO THEN <<>>
    ELSE LET qr == div_rem(n, 10)
         IN  digits_of(qr.limbs) \o <<48 + qr.rem>>

(* impl fmt::Display for Uint128 *)
Uint128_fmt(n) == IF n = U128_ZERO THEN <<48>> ELSE digits_of(n)

(* a Display with a space between amount and denom *)
Coin_fmt_spaced(c, f) ==
    [buf |-> f \o Uint128_fmt(c.amount) \o <<32>> \o c.denom, result |-> "Ok"]

(* a Display that writes the denom first *)
Coin_fmt_denom_first(c, f) ==
    [buf |-> f \o c.denom \o Uint128_fmt(c.amount), result |-> "Ok"]

(* impl fmt::Display for Coin: write!(f, "{}{}", self.amount, self.denom)   *)
(* appends to the formatter's buffer and returns the fmt::Result; the       *)
(* buffer is a String (to_string, format!), whose writes do not fail        *)
Coin_fmt(c, f) == [buf |-> f \o Uint128_fmt(c.amount) \o c.denom, result |-> "Ok"]

(* ToString::to_string: formats into an empty String *)
to_string(c) == Coin_fmt(c, <<>>).buf

(* format!("Amount: {}", a): the literal piece, then a's Display *)
AmountPrefix == <<65, 109, 111, 117, 110, 116, 58, 32>>
format_embedded(c) == Coin_fmt(c, AmountPrefix).buf

(* coins.iter().find(|c| c.denom == required.denom) *)
RECURSIVE iter_find(_, _, _)
iter_find(coins, denom, i) ==
    IF i > Len(coins) THEN None
    ELSE IF coins[i].denom = denom THEN Some(coins[i])
    ELSE iter_find(coins, denom, i + 1)

(* a has_coins that accepts any entry of the denom that is large enough *)
has_coins_any(coins, req) ==
    \E i \in 1..Len(coins) :
        /\ coins[i].denom = req.denom
        /\ Uint128_ge(coins[i].amount, req.amount)

has_coins(coins, req) ==
    LET m == iter_find(coins, req.denom, 1)
    IN  IF m = None THEN FALSE
        ELSE Uint128_ge(m.val.amount, req.amount)

---------------------------------------------------------------------------
(* The texts, coins and wallets the callers hand in *)

MaxLen == 3         \* every text over Alphabet up to this length is an input
MaxZeros == 2       \* how many '0' characters are prepended to a text
MaxCoins == 3       \* the longest wallet handed to has_coins

(* a numeral written as its decimal digits, as text *)
Numeral(ds) == [i \in 1..Len(ds) |-> 48 + ds[i]]

(* "340282366920938463463374607431768211456", 2^128, of tests::parse_coin *)
TwoPow128Text ==
    Numeral(<<3,4,0,2,8,2,3,6,6,9,2,0,9,3,8,4,6,3,4,6,3,3,7,4,6,0,7,4,3,1,7,6,8,2,1,1,4,5,6>>)
(* 2^128 - 1, u128::MAX *)
U128MaxText ==
    Numeral(<<3,4,0,2,8,2,3,6,6,9,2,0,9,3,8,4,6,3,4,6,3,3,7,4,6,0,7,4,3,1,7,6,8,2,1,1,4,5,5>>)

ucosm == <<117, 99, 111, 115, 109>>
(* "ibc/27394FB092D2ECCD56123C74F36E4C1F926001CEADA9CA97EA622B25F41E5EB2" *)
ibc_denom ==
    <<105, 98, 99, 47>> \o
    <<50,55,51,57,52,70,66,48,57,50,68,50,69,67,67,68,53,54,49,50,51,67,55,52,70,51,54,69,52,67,49,70>> \o
    <<57,50,54,48,48,49,67,69,65,68,65,57,67,65,57,55,69,65,54,50,50,66,50,53,70,52,49,69,53,69,66,50>>
ETH == <<69, 84, 72>>
BTC == <<66, 84, 67>>
XRP == <<88, 82, 80>>

(* '0', '1', '9', 'u', '-' *)
Alphabet == {48, 49, 57, 117, 45}

RECURSIVE TextsUpTo(_)
TextsUpTo(n) ==
    IF n = 0 THEN {<<>>}
    ELSE LET shorter == TextsUpTo(n - 1)
         IN  shorter \cup {Append(t, c) : t \in shorter, c \in Alphabet}

(* digit runs around the limits of u128, and the ones of tests::parse_coin *)
DigitRuns ==
    { <<>>, Numeral(<<0>>), Numeral(<<1,2,3>>), Numeral(<<0,0,1,2,3>>),
      Numeral(<<1,1,1,1,1>>), Numeral(<<6,5,5,3,6>>),
      U128MaxText, TwoPow128Text,
      SubSeq(U128MaxText, 1, 38) \o <<52>>,       \* 2^128 - 2
      SubSeq(U128MaxText, 1, 38),                 \* 38 digits
      U128MaxText \o <<48>>,                      \* 40 digits
      <<52>> \o SubSeq(U128MaxText, 2, 39),       \* 39 digits, first digit too large
      [i \in 1..39 |-> 57] }                      \* 10^39 - 1

(* what follows the digit run: nothing, a denom, a sign, a space,          *)
(* U+FFFD, U+0663 (a digit that is not ASCII), a denom with digits inside  *)
Tails ==
    { <<>>, ucosm, <<117>>, ibc_denom, <<45>> \o Numeral(<<1,2,3>>) \o ucosm,
      <<32>> \o Numeral(<<1>>) \o ucosm, <<65533>> \o Numeral(<<1>>) \o ucosm,
      <<1635>>, <<47>>, <<117, 49>>, <<43, 49, 117>> }

Inputs == TextsUpTo(MaxLen) \cup {d \o t : d \in DigitRuns, t \in Tails}

(* amounts given to Coin::new *)
Amounts ==
    { U128_ZERO, u128_from(1), u128_from(10), u128_from(123), u128_from(12345),
      u128_from(65535), u128_from(65536), u128_from(1000000),
      [i \in 1..NumLimbs |-> IF i = 5 THEN 1 ELSE 0],               \* 2^64
      [i \in 1..NumLimbs |-> IF i = NumLimbs THEN 32768 ELSE 0],    \* 2^127
      [i \in 1..NumLimbs |-> IF i = 1 THEN LimbBase - 2 ELSE LimbBase - 1],
      U128_MAX }

(* denoms given to Coin::new: no validation, so any text *)
Denoms ==
    { <<>>, ucosm, <<117>>, ibc_denom, <<45>>, <<32>>, <<65533>>, <<1635>>,
      <<117, 49>>, <<49, 117>>, <<48>>, Numeral(<<1,2,3>>) \o ucosm }

(* the coins of tests::has_coins_matches and some around them *)
WalletCoins ==
    { Coin_new(u128_from(12345), ETH), Coin_new(u128_from(555), BTC),
      Coin_new(u128_from(555), ETH), Coin_new(U128_ZERO, ETH),
      Coin_new([i \in 1..NumLimbs |-> IF i = 5 THEN 1 ELSE 0], BTC),
      Coin_new(u128_from(65536), ETH) }

RequiredCoins ==
    { Coin_new(u128_from(777), ETH), Coin_new(u128_from(999999), ETH),
      Coin_new(u128_from(1), XRP), Coin_new(U128_ZERO, XRP),
      Coin_new(U128_ZERO, ETH), Coin_new(u128_from(555), BTC),
      Coin_new(u128_from(65535), BTC), Coin_new(u128_from(65537), ETH) }

---------------------------------------------------------------------------
(* The callers of the text codec *)

Init ==
    /\ s = None
    /\ res = Pending
    /\ first = Pending
    /\ zeros = 0
    /\ coin = None
    /\ text = None
    /\ embedded = None
    /\ back = Pending
    /\ wallet = <<>>
    /\ required = None
    /\ found = None

(* a caller receives raw text to decode *)
Input(str) ==
    /\ s = None
    /\ coin = None
    /\ s' = Some(str)
    /\ UNCHANGED <<res, first, zeros, coin, text, embedded, back, wallet, required, found>>

(* Coin::new(amount, denom) / coin(amount, denom) *)
New(amount, denom) ==
    /\ s = None
    /\ coin = None
    /\ coin' = Some(Coin_new(amount, denom))
    /\ UNCHANGED <<s, res, first, zeros, text, embedded, back, wallet, required, found>>

(* Coin::from_str(s): on Ok the caller holds the decoded coin *)
FromStr ==
    /\ s # None
    /\ res = Pending
    /\ res' = from_str(s.val)
    /\ first' = IF first = Pending THEN res' ELSE first
    /\ coin' = IF res'.tag = "Ok" THEN Some(res'.coin) ELSE None
    /\ UNCHANGED <<s, zeros, text, embedded, back, wallet, required, found>>

(* the same text with one more leading '0', to be decoded again *)
PrependZero ==
    /\ s # None
    /\ res # Pending
    /\ text = None
    /\ embedded = None
    /\ zeros < MaxZeros
    /\ s' = Some(<<48>> \o s.val)
    /\ zeros' = zeros + 1
    /\ res' = Pending
    /\ coin' = None
    /\ UNCHANGED <<first, text, embedded, back, wallet, required, found>>

(* coin.to_string() *)
Display ==
    /\ coin # None
    /\ text = None
    /\ text' = Some(to_string(coin.val))
    /\ UNCHANGED <<s, res, first, zeros, coin, embedded, back, wallet, required, found>>

(* format!("Amount: {}", coin) *)
FormatEmbedded ==
    /\ coin # None
    /\ embedded = None
    /\ embedded' = Some(format_embedded(coin.val))
    /\ UNCHANGED <<s, res, first, zeros, coin, text, back, wallet, required, found>>

(* Coin::from_str(coin.to_string()) *)
DecodeBack ==
    /\ text # None
    /\ back = Pending
    /\ back' = from_str(text.val)
    /\ UNCHANGED <<s, res, first, zeros, coin, text, embedded, wallet, required, found>>

Next ==
    \/ \E str \in Inputs : Input(str)
    \/ \E amount \in Amounts, denom \in Denoms : New(amount, denom)
    \/ FromStr
    \/ PrependZero
    \/ Display
    \/ FormatEmbedded
    \/ DecodeBack

Spec == Init /\ [][Next]_vars

---------------------------------------------------------------------------
(* The callers of has_coins *)

(* the caller builds its Vec<Coin> with coin(amount, denom) *)
PushCoin(c) ==
    /\ found = None
    /\ Len(wallet) < MaxCoins
    /\ wallet' = Append(wallet, c)
    /\ UNCHANGED <<s, res, first, zeros, coin, text, embedded, back, required, found>>

(* has_coins(&wallet, &req): reads the slice, returns the bool *)
HasCoins(req) ==
    /\ found = None
    /\ required' = Some(req)
    /\ found' = Some(has_coins(wallet, req))
    /\ UNCHANGED <<s, res, first, zeros, coin, text, embedded, back, wallet>>

NextHas ==
    \/ \E c \in WalletCoins : PushCoin(c)
    \/ \E req \in RequiredCoins : HasCoins(req)

SpecHas == Init /\ [][NextHas]_vars

---------------------------------------------------------------------------
(* Natural numbers of any size, for stating what the codec must compute:   *)
(* limbs in base LimbBase, least significant first, no leading zero limb   *)

RECURSIVE NatTimesPlus(_, _, _)
NatTimesPlus(x, m, c) ==
    IF x = <<>> THEN (IF c = 0 THEN <<>> ELSE <<c>>)
    ELSE LET t == Head(x) * m + c
         IN  <<t % LimbBase>> \o NatTimesPlus(Tail(x), m, t \div LimbBase)

(* the number a run of ASCII digits denotes in decimal *)
RECURSIVE NatValueFrom(_, _, _)
NatValueFrom(ds, i, acc) ==
    IF i > Len(ds) THEN acc
    ELSE NatValueFrom(ds, i + 1, NatTimesPlus(acc, 10, ds[i] - 48))

NatValue(ds) == NatValueFrom(ds, 1, <<>>)

(* the number a u128 holds *)
NatOf(x) ==
    LET nz == {i \in 1..Len(x) : x[i] # 0}
    IN  IF nz = {} THEN <<>>
        ELSE SubSeq(x, 1, CHOOSE i \in nz : \A j \in nz : j <= i)

NatLe(a, b) ==
    \/ Len(a) < Len(b)
    \/ /\ Len(a) = Len(b)
       /\ \/ a = b
          \/ \E i \in 1..Len(a) :
                /\ a[i] < b[i]
                /\ \A j \in (i + 1)..Len(a) : a[j] = b[j]

IsDigit(c) == c >= 48 /\ c <= 57

(* how many ASCII digits a text starts with *)
DigitPrefixLen(t) ==
    LET nd == {i \in 1..Len(t) : ~IsDigit(t[i])}
    IN  IF nd = {} THEN Len(t)
        ELSE (CHOOSE i \in nd : \A j \in nd : i <= j) - 1

DigitPrefix(t) == SubSeq(t, 1, DigitPrefixLen(t))
AfterDigits(t) == SubSeq(t, DigitPrefixLen(t) + 1, Len(t))

(* 2^128 - 1 as the number its decimal text denotes *)
NatU128Max == NatValue(U128MaxText)

Decoded == s # None /\ res # Pending

---------------------------------------------------------------------------
(* C1 as stated: for every amount and every denom that does not begin with *)
(* an ASCII digit, decoding the encoding of Coin{a, d} succeeds and        *)
(* returns Coin{a, d}.                                                     *)
C1_RoundTripAnyDenom ==
    (/\ coin # None
     /\ text # None
     /\ back # Pending
     /\ (coin.val.denom = <<>> \/ ~IsDigit(coin.val.denom[1])))
    => back = Ok(coin.val)

(* C1 as amended: for every amount and every NON-EMPTY denom that does not *)
(* begin with an ASCII digit, decoding the encoding of Coin{a, d} succeeds *)
(* and returns Coin{a, d}.                                                 *)
C1_RoundTrip ==
    (/\ coin # None
     /\ text # None
     /\ back # Pending
     /\ coin.val.denom # <<>>
     /\ ~IsDigit(coin.val.denom[1]))
    => back = Ok(coin.val)

C1_Witness ==
    /\ s = None
    /\ coin = Some(Coin_new(U128_MAX, <<32>>))
    /\ text = Some(U128MaxText \o <<32>>)
    /\ back = Ok(coin.val)

(* C2: whenever from_str(s) succeeds, the amount is the decimal value of   *)
(* the maximal prefix of ASCII digits of s and the denom is the rest of s, *)
(* unchanged.                                                              *)
C2_SplitAtFirstNonDigit ==
    (Decoded /\ res.tag = "Ok")
    => /\ NatOf(res.coin.amount) = NatValue(DigitPrefix(s.val))
       /\ res.coin.denom = AfterDigits(s.val)

C2_Witness ==
    /\ s = Some(Numeral(<<1,1,1,1,1>>) \o ibc_denom)
    /\ res = Ok(Coin_new(u128_from(11111), ibc_denom))

(* C3: from_str(s) fails with MissingDenom if and only if s has no         *)
(* character that is not an ASCII digit, also when the digits exceed       *)
(* 2^128 - 1.                                                              *)
C3_MissingDenomIff ==
    Decoded =>
        ((res = Err(MissingDenom)) <=> (\A i \in 1..Len(s.val) : IsDigit(s.val[i])))

C3_Witness ==
    /\ s = Some(TwoPow128Text)
    /\ res = Err(MissingDenom)

(* C4: from_str(s) fails with MissingAmount if and only if s is non-empty  *)
(* and its first character is not an ASCII digit, whatever follows.        *)
C4_MissingAmountIff ==
    Decoded =>
        ((res = Err(MissingAmount)) <=> (s.val # <<>> /\ ~IsDigit(s.val[1])))

C4_Witness ==
    /\ s = Some(<<45>> \o Numeral(<<1,2,3>>) \o ucosm)
    /\ res = Err(MissingAmount)

(* C5: for a non-empty run of ASCII digits followed by at least one other  *)
(* character, from_str succeeds exactly when the run's decimal value is at *)
(* most 2^128 - 1, and otherwise fails with the amount-overflow error,     *)
(* which is neither MissingAmount nor MissingDenom.                        *)
C5_OverflowBoundary ==
    (/\ Decoded
     /\ DigitPrefixLen(s.val) >= 1
     /\ DigitPrefixLen(s.val) < Len(s.val))
    => IF NatLe(NatValue(DigitPrefix(s.val)), NatU128Max)
       THEN res.tag = "Ok"
       ELSE /\ res = Err(InvalidAmount("PosOverflow"))
            /\ res # Err(MissingAmount)
            /\ res # Err(MissingDenom)

C5_Witness ==
    /\ s = Some(TwoPow128Text \o ucosm)
    /\ res = Err(InvalidAmount("PosOverflow"))

(* C6: if s decodes successfully, s with k '0' characters prepended        *)
(* decodes successfully to the same coin, for every k.                     *)
C6_LeadingZerosIgnored ==
    (Decoded /\ first.tag = "Ok") => res = first

C6_Witness ==
    /\ zeros = 2
    /\ s = Some(<<48, 48>> \o U128MaxText \o ucosm)
    /\ res = Ok(Coin_new(U128_MAX, ucosm))
    /\ first = res

(* C7: encoding never fails and yields the decimal digits of amount (no    *)
(* leading zeros, "0" for zero, nothing but digits) immediately followed   *)
(* by denom, and the same text when embedded in a larger format string.    *)
C7_EncodingShape ==
    /\ coin # None => Coin_fmt(coin.val, <<>>).result = "Ok"
    /\ text # None =>
        LET n == Len(text.val) - Len(coin.val.denom)
            ds == SubSeq(text.val, 1, n)
        IN  /\ n >= 1
            /\ \A i \in 1..n : IsDigit(ds[i])
            /\ n > 1 => ds[1] # 48
            /\ NatValue(ds) = NatOf(coin.val.amount)
            /\ SubSeq(text.val, n + 1, Len(text.val)) = coin.val.denom
    /\ (text # None /\ embedded # None) => embedded.val = AmountPrefix \o text.val

C7_Witness ==
    /\ coin = Some(Coin_new(U128_ZERO, Numeral(<<1,2,3>>) \o ucosm))
    /\ text = Some(<<48, 49, 50, 51>> \o ucosm)
    /\ embedded = Some(AmountPrefix \o <<48, 49, 50, 51>> \o ucosm)

C9_DecodedDenomShape ==
    /\ \A r \in {res, back} :
        /\ r.tag = "Ok" =>
            /\ r.coin.denom # <<>>
            /\ ~IsDigit(r.coin.denom[1])
        /\ r.tag = "Err" => DOMAIN r = {"tag", "err"}
    /\ (Decoded /\ res.tag = "Err") => coin = None

C9_Witness ==
    /\ s = Some(Numeral(<<1,2,3>>) \o <<117, 49>>)
    /\ res = Ok(Coin_new(u128_from(123), <<117, 49>>))

(* C10: if s decodes to a coin c, then decoding the encoding of c succeeds *)
(* and returns c again, also when the encoding differs from s.             *)
C10_ReencodeStable ==
    (Decoded /\ res.tag = "Ok" /\ text # None /\ back # Pending) => back = res

C10_Witness ==
    /\ s = Some(Numeral(<<0,0,1,2,3>>) \o ucosm)
    /\ text = Some(Numeral(<<1,2,3>>) \o ucosm)
    /\ back = res
    /\ res.tag = "Ok"

====
